---- MODULE Spec2Model ----
(***************************************************************************)
(* A model of the fofou log-structured forum store (store.go).             *)
(*                                                                         *)
(* Strings are sequences of one-character strings, so the log file is a    *)
(* sequence of characters and a record is formatted and parsed character   *)
(* by character, as the code does with Sprintf, Split and Atoi.            *)
(* Slices are headers [arr, len] over backing arrays kept in a heap, and   *)
(* a *Post is a pair [arr, idx], so that append's reallocation and the     *)
(* pointers kept across it behave as they do in Go.                        *)
(***************************************************************************)
EXTENDS Integers, Sequences, FiniteSets, TLC

(* ---------------------------------------------------------------- bounds *)

\* successful appends to the data file over one behaviour
MaxWrites == 3
\* largest page size, offset and result limit passed to a query
MaxN == 2
\* longest user name typed
MaxNameLen == 4
\* most lines of a data file given to NewStore
MaxLines == 4

(* ---------------------------------------------------------------- inputs *)

Subjects == { <<"s", "|">> }
\* who posts: a user name as typed and the address of the request
Callers == { [user |-> <<"a">>, ipAddr |-> <<"1", ".", "2", ".", "3", ".", "4">>],
             [user |-> <<"b", "|">>, ipAddr |-> <<":", ":", "1">>] }
Users == { c.user : c \in Callers }
IpAddrs == { c.ipAddr : c \in Callers }
Msgs == { "hi" }
Times == { 7 }
\* characters of a typed user name: a letter, the tag letter, the tag
\* separator and the field delimiter of the log
NameChars == { "k", "t", ":", "|" }
RawNames == UNION { [1 .. n -> NameChars] : n \in 0 .. MaxNameLen }
\* the values of a part of a dotted address
PartVals == { 0, 1, 9, 16, 255 }
\* addresses that are not four dot-separated parts
OtherAddrs == { << ":", ":", "1" >>, <<>>, << "1", ".", "2", ".", "3" >>,
                << "1", ".", "2", ".", "3", ".", "4", ".", "5" >>,
                << "f", "e", "8", "0", ":", ":", "1" >>,
                << "1", "2", "3", "4", "5", "6", "7" >>,
                << "d", "e", "a", "d", "b", "e", "e", "f" >> }
TopicIds == 1 .. 2
PostIds == -1 .. 2

(* -------------------------------------------------- strconv, strings, hex *)

Digits == << "0", "1", "2", "3", "4", "5", "6", "7", "8", "9" >>

HexDigits == Digits \o << "a", "b", "c", "d", "e", "f" >>

IsDigit(c) == \E i \in 1 .. 10 : Digits[i] = c

DigitVal(c) == (CHOOSE i \in 1 .. 10 : Digits[i] = c) - 1

RECURSIVE Itoa(_)
\* fmt's %d
Itoa(n) ==
    IF n < 0 THEN <<"-">> \o Itoa(0 - n)
    ELSE IF n < 10 THEN << Digits[n + 1] >>
    ELSE Itoa(n \div 10) \o << Digits[(n % 10) + 1] >>

RECURSIVE DigitsVal(_)
DigitsVal(s) ==
    IF s = <<>> THEN 0
    ELSE DigitsVal(SubSeq(s, 1, Len(s) - 1)) * 10 + DigitVal(s[Len(s)])

AllDigits(s) == Len(s) > 0 /\ \A i \in 1 .. Len(s) : IsDigit(s[i])

\* strconv.Atoi: [ok, val]; val is 0 on a syntax error
Atoi(s) ==
    IF AllDigits(s) THEN [ok |-> TRUE, val |-> DigitsVal(s)]
    ELSE IF Len(s) > 1 /\ s[1] \in {"-", "+"} /\ AllDigits(Tail(s))
    THEN [ok |-> TRUE,
          val |-> IF s[1] = "-" THEN 0 - DigitsVal(Tail(s)) ELSE DigitsVal(Tail(s))]
    ELSE [ok |-> FALSE, val |-> 0]

\* bytes.IndexByte, 1-based; 0 when c does not occur (Go's -1)
IndexByte(s, c) ==
    IF \E i \in 1 .. Len(s) : s[i] = c
    THEN CHOOSE i \in 1 .. Len(s) : s[i] = c /\ \A j \in 1 .. i - 1 : s[j] # c
    ELSE 0

RECURSIVE Split(_, _)
\* strings.Split
Split(s, sep) ==
    LET i == IndexByte(s, sep)
    IN  IF i = 0 THEN << s >>
        ELSE << SubSeq(s, 1, i - 1) >> \o Split(SubSeq(s, i + 1, Len(s)), sep)

MakeInternalUserName(userName, twitter) ==
    IF twitter THEN << "t", ":" >> \o userName
    ELSE IF Len(userName) >= 2 /\ userName[2] = ":"
    THEN IF Len(userName) > 2 THEN SubSeq(userName, 3, Len(userName))
         ELSE SubSeq(userName, 1, 1)
    ELSE userName

NotSep(c) == c # "|"

remSep(s) == SelectSeq(s, NotSep)

HexByte(b) == << HexDigits[(b \div 16) + 1], HexDigits[(b % 16) + 1] >>

ipAddrToInternal(ipAddr) ==
    LET parts == Split(ipAddr, ".")
        num(n) == Atoi(parts[n]).val % 256
    IN  IF Len(parts) = 4
        THEN HexByte(num(1)) \o HexByte(num(2)) \o HexByte(num(3)) \o HexByte(num(4))
        ELSE ipAddr

UpperHexDigits == << "A", "B", "C", "D", "E", "F" >>

IsHexDigit(c) ==
    (\E i \in 1 .. 16 : HexDigits[i] = c) \/ (\E i \in 1 .. 6 : UpperHexDigits[i] = c)

HexVal(c) ==
    IF \E i \in 1 .. 16 : HexDigits[i] = c
    THEN (CHOOSE i \in 1 .. 16 : HexDigits[i] = c) - 1
    ELSE (CHOOSE i \in 1 .. 6 : UpperHexDigits[i] = c) + 9

\* hex.DecodeString: [ok, val], val the bytes
HexDecodeString(s) ==
    IF Len(s) % 2 = 0 /\ \A i \in 1 .. Len(s) : IsHexDigit(s[i])
    THEN [ok |-> TRUE,
          val |-> [i \in 1 .. Len(s) \div 2 |->
                      16 * HexVal(s[2 * i - 1]) + HexVal(s[2 * i])]]
    ELSE [ok |-> FALSE, val |-> <<>>]

\* Sprintf("%d.%d.%d.%d", d[0], d[1], d[2], d[3])
Dotted(d) ==
    Itoa(d[1]) \o << "." >> \o Itoa(d[2]) \o << "." >> \o Itoa(d[3])
        \o << "." >> \o Itoa(d[4])

ipAddrInternalToOriginal(s) ==
    IF Len(s) = 7 /\ HexDecodeString(<< "0" >> \o s).ok
    THEN Dotted(HexDecodeString(<< "0" >> \o s).val)
    ELSE IF Len(s) = 8 /\ HexDecodeString(s).ok
    THEN Dotted(HexDecodeString(s).val)
    ELSE s

(* ------------------------------------------------------- digest, base64 *)

\* The 20-byte digest of a message body, as one value per body.
Sha1OfBytes(msg) == << "sha1", msg >>

\* base64.StdEncoding of a 20-byte digest is 27 characters and one '=':
\* the 27 characters are kept as one character naming the digest.
B64Char(sha1) == IF sha1[2] = "hi" THEN "K" ELSE "L"

B64Sha1s == { Sha1OfBytes(m) : m \in Msgs }

EncodeToString(sha1) == << B64Char(sha1), "=" >>

\* base64.StdEncoding.DecodeString followed by the length check: [ok, val]
DecodeString(s) ==
    IF Len(s) = 2 /\ s[2] = "=" /\ \E d \in B64Sha1s : B64Char(d) = s[1]
    THEN [ok |-> TRUE, val |-> CHOOSE d \in B64Sha1s : B64Char(d) = s[1]]
    ELSE [ok |-> FALSE, val |-> << "sha1", "" >>]

(* ------------------------------------------------- slices and the heap *)

\* A heap is a sequence of backing arrays [cap, elems]; a slice is a header
\* [arr, len] over the array heap[arr], and arr = 0 is make(.., 0).
EmptySlice == [arr |-> 0, len |-> 0]

Cap(heap, h) == IF h.arr = 0 THEN 0 ELSE heap[h.arr].cap

Elems(heap, h) == IF h.arr = 0 THEN <<>> ELSE SubSeq(heap[h.arr].elems, 1, h.len)

\* the capacity append gives a full slice of these element sizes
GrowCap(cap) == IF cap = 0 THEN 1 ELSE 2 * cap

\* append(h, x): in place when there is spare capacity (the write is seen
\* through every header of that array), else into a new array
AppendSlice(heap, h, x) ==
    IF h.len < Cap(heap, h)
    THEN [heap |-> [heap EXCEPT ![h.arr].elems =
                        IF Len(@) > h.len THEN [@ EXCEPT ![h.len + 1] = x]
                        ELSE Append(@, x)],
          slice |-> [h EXCEPT !.len = h.len + 1]]
    ELSE [heap |-> Append(heap, [cap |-> GrowCap(Cap(heap, h)),
                                 elems |-> Append(Elems(heap, h), x)]),
          slice |-> [arr |-> Len(heap) + 1, len |-> h.len + 1]]

(* ------------------------------------------------------------ the store *)

VARIABLES
    topics,     \* store.topics: the Topic structs, oldest first
    postArrs,   \* heap of the backing arrays of the Topic.Posts slices
    posts,      \* store.posts: pointers [arr, idx] into postArrs
    log,        \* the characters of the data file
    blobs,      \* the blob files: digest -> bytes
    status,     \* "open", or "failed" once NewStore did not return a store
    pc,         \* the call holding the lock is at: blob, append, apply, done
                \* (returning); idle when the lock is free
    op,         \* the call in progress, or the last one
    ret,        \* what the last finished call returned
    nwrites,    \* successful appends to the data file so far
    parked      \* the frame [pc, op, ret] of the goroutine that is not running

vars == << topics, postArrs, posts, log, blobs, status, pc, op, ret, nwrites,
           parked >>

NoSha1 == << "sha1", "" >>

\* A Post; its Topic field, a *Topic, is kept as the Id of the Topic struct
\* it points at (0 for nil), which no code changes after the struct is made.
NoPost == [Id |-> 0, CreatedOn |-> 0, MessageSha1 |-> NoSha1,
           UserNameInternal |-> <<>>, IpAddrInternal |-> <<>>, IsDeleted |-> FALSE,
           Topic |-> 0]

NoTopic == [Id |-> 0, Subject |-> <<>>, Posts |-> EmptySlice]

NoPtr == [arr |-> 0, idx |-> 0]

Snapshot == [topics |-> topics, postArrs |-> postArrs, posts |-> posts,
             log |-> log, blobs |-> blobs]

NoOp == [name |-> "none", topicId |-> 0, postId |-> 0, newTopic |-> FALSE,
         idx |-> 0, topic |-> NoTopic, ptr |-> NoPtr, post |-> NoPost,
         msg |-> "", str |-> <<>>, wrote |-> FALSE, failed |-> "",
         n |-> 0, from |-> 0, key |-> <<>>,
         pre |-> [topics |-> <<>>, postArrs |-> <<>>, posts |-> <<>>,
                  log |-> <<>>, blobs |-> <<>>]]

NoRet == [status |-> "none", id |-> 0, res |-> <<>>, next |-> 0]

\* a goroutine that is in no call of the store
IdleFrame == [pc |-> "idle", op |-> NoOp, ret |-> NoRet]

Returned(st, id) == [status |-> st, id |-> id, res |-> <<>>, next |-> 0]

\* the post a *Post points at
Deref(heap, ptr) == heap[ptr.arr].elems[ptr.idx]

\* index in store.topics of the first topic with this id, 0 for nil
topicByIdUnlocked(id) ==
    IF \E i \in 1 .. Len(topics) : topics[i].Id = id
    THEN CHOOSE i \in 1 .. Len(topics) :
            topics[i].Id = id /\ \A j \in 1 .. i - 1 : topics[j].Id # id
    ELSE 0

\* findPost: "notopic", "nopost", "panic" (index out of range) or "ok" with
\* the pointer &topic.Posts[postId-1]
findPost(topicId, postId) ==
    LET i == topicByIdUnlocked(topicId)
    IN  IF i = 0 THEN [res |-> "notopic", ptr |-> NoPtr]
        ELSE IF postId > topics[i].Posts.len THEN [res |-> "nopost", ptr |-> NoPtr]
        ELSE IF postId - 1 < 0 THEN [res |-> "panic", ptr |-> NoPtr]
        ELSE [res |-> "ok", ptr |-> [arr |-> topics[i].Posts.arr, idx |-> postId]]

(* --------------------------------------------------------------- replay *)

\* The state of parseTopics' loop: the heap of the arrays `topics` has
\* lived in, the topics slice, topicIdToTopic (id -> pointer [arr, idx] to
\* a Topic struct in tarrs), the heap of post arrays, *recentPosts, and the
\* panic that ended the loop ("" for none).
Replay0 == [tarrs |-> <<>>, topics |-> EmptySlice, map |-> <<>>,
            parrs |-> <<>>, recent |-> <<>>, panic |-> ""]

Panic(R, why) == [R EXCEPT !.panic = why]

\* the Topic struct a pointer of topicIdToTopic points at
TopicAt(R, tp) == R.tarrs[tp.arr].elems[tp.idx]

\* parseDelUndel after the Split: [ok, topicId, postId]
parseDelUndelIds(n, topicId, postId) ==
    IF n # 2 \/ ~ topicId.ok \/ ~ postId.ok
    THEN [ok |-> FALSE, topicId |-> 0, postId |-> 0]
    ELSE [ok |-> TRUE, topicId |-> topicId.val, postId |-> postId.val]

parseDelUndelParts(parts) ==
    parseDelUndelIds(Len(parts), Atoi(parts[1]),
                     IF Len(parts) >= 2 THEN Atoi(parts[2]) ELSE Atoi(<<>>))

parseDelUndel(d) == parseDelUndelParts(Split(d, "|"))

\* findPostToDelUndel after parseDelUndel: [ok, ptr], ptr =
\* &topic.Posts[postId-1] through the Topic struct the map points at; not ok
\* is a panic
findPostByIds(R, a) ==
    IF ~ a.ok THEN [ok |-> FALSE, ptr |-> NoPtr]
    ELSE IF a.topicId \notin DOMAIN R.map THEN [ok |-> FALSE, ptr |-> NoPtr]
    ELSE IF a.postId > TopicAt(R, R.map[a.topicId]).Posts.len \/ a.postId - 1 < 0
    THEN [ok |-> FALSE, ptr |-> NoPtr]
    ELSE [ok |-> TRUE,
          ptr |-> [arr |-> TopicAt(R, R.map[a.topicId]).Posts.arr, idx |-> a.postId]]

findPostToDelUndel(R, d) == findPostByIds(R, parseDelUndel(d))

\* parseTopic after the Split: [ok, topic]
parseTopicParts(n, id, subject) ==
    IF n # 2 \/ ~ id.ok THEN [ok |-> FALSE, topic |-> NoTopic]
    ELSE [ok |-> TRUE,
          topic |-> [Id |-> id.val, Subject |-> subject, Posts |-> EmptySlice]]

parseTopicSplit(parts) ==
    parseTopicParts(Len(parts), Atoi(parts[1]),
                    IF Len(parts) >= 2 THEN parts[2] ELSE <<>>)

parseTopic(line) == parseTopicSplit(Split(Tail(line), "|"))

\* RealPostId trusting the id of the record
RealPostIdStored(id, nPosts) == id

\* the id parsePost gives the post of a record holding `id`, when the topic
\* has nPosts posts
RealPostId(id, nPosts) == nPosts + 1

NoParsedPost == [ok |-> FALSE, post |-> NoPost, t |-> NoPtr]

\* parsePost after the conversions: [ok, post, t], t the pointer found in
\* topicIdToTopic
parsePostFields(R, topicId, id, createdOnSeconds, msgSha1, ipAddrInternal, userName) ==
    IF ~ topicId.ok \/ ~ id.ok \/ ~ createdOnSeconds.ok \/ ~ msgSha1.ok
    THEN NoParsedPost
    ELSE IF topicId.val \notin DOMAIN R.map THEN NoParsedPost
    ELSE [ok |-> TRUE, t |-> R.map[topicId.val],
          post |-> [Id |-> RealPostId(id.val, TopicAt(R, R.map[topicId.val]).Posts.len),
                    CreatedOn |-> createdOnSeconds.val,
                    MessageSha1 |-> msgSha1.val,
                    UserNameInternal |-> userName,
                    IpAddrInternal |-> ipAddrInternal,
                    IsDeleted |-> FALSE,
                    Topic |-> TopicAt(R, R.map[topicId.val]).Id]]

parsePostParts(R, parts) ==
    IF Len(parts) # 6 THEN NoParsedPost
    ELSE parsePostFields(R, Atoi(parts[1]), Atoi(parts[2]), Atoi(parts[3]),
                         DecodeString(parts[4] \o <<"=">>), parts[5], parts[6])

parsePost(R, line) == parsePostParts(R, Split(Tail(line), "|"))

\* case 'T': topics = append(topics, t); topicIdToTopic[t.Id] = &topics[len-1]
ReplayTopic(R, t, a) ==
    IF ~ t.ok THEN Panic(R, "parseTopic")
    ELSE [R EXCEPT !.tarrs = a.heap, !.topics = a.slice,
                   !.map = (t.topic.Id :> [arr |-> a.slice.arr, idx |-> a.slice.len]) @@ @]

ReplayParsedTopic(R, t) == ReplayTopic(R, t, AppendSlice(R.tarrs, R.topics, t.topic))

ReplayT(R, line) == ReplayParsedTopic(R, parseTopic(line))

\* case 'P': t.Posts = append(t.Posts, post); *recentPosts = append(.., &t.Posts[len-1])
ReplayPost(R, p, a) ==
    [R EXCEPT !.parrs = a.heap,
              !.tarrs[p.t.arr].elems[p.t.idx].Posts = a.slice,
              !.recent = Append(@, [arr |-> a.slice.arr, idx |-> a.slice.len])]

ReplayParsedPost(R, p) ==
    IF ~ p.ok THEN Panic(R, "parsePost")
    ELSE ReplayPost(R, p, AppendSlice(R.parrs, TopicAt(R, p.t).Posts, p.post))

ReplayP(R, line) == ReplayParsedPost(R, parsePost(R, line))

\* ReplayFound without the test of the flag
ReplayFoundAnyFlag(R, f, del) ==
    IF ~ f.ok THEN Panic(R, "findPostToDelUndel")
    ELSE [R EXCEPT !.parrs[f.ptr.arr].elems[f.ptr.idx].IsDeleted = del]

\* case 'D' (del = TRUE) and case 'U' (del = FALSE)
ReplayFound(R, f, del) ==
    IF ~ f.ok THEN Panic(R, "findPostToDelUndel")
    ELSE IF Deref(R.parrs, f.ptr).IsDeleted = del THEN Panic(R, "already")
    ELSE [R EXCEPT !.parrs[f.ptr.arr].elems[f.ptr.idx].IsDeleted = del]

ReplayDU(R, line, del) == ReplayFound(R, findPostToDelUndel(R, Tail(line)), del)

\* ReplayB taking the line for an unexpected one
ReplayBUnexpected(R, line) == Panic(R, "Unexpected line type")

\* case 'B': nothing is done
ReplayB(R, line) == R

\* the body of parseTopics' loop for one line
ReplayLine(R, line) ==
    IF Len(line) = 0 THEN Panic(R, "index out of range")
    ELSE CASE line[1] = "T" -> ReplayT(R, line)
           [] line[1] = "P" -> ReplayP(R, line)
           [] line[1] = "D" -> ReplayDU(R, line, TRUE)
           [] line[1] = "U" -> ReplayDU(R, line, FALSE)
           [] line[1] = "B" -> ReplayB(R, line)
           [] OTHER -> Panic(R, "Unexpected line type")

RECURSIVE ReplayLoop(_, _)
ReplayLoop(R, d) ==
    IF R.panic # "" \/ Len(d) = 0 THEN R
    ELSE LET idx == IndexByte(d, "\n")
         IN  IF idx = 0 THEN Panic(R, "idx shouldn't be -1")
             ELSE ReplayLoop(ReplayLine(R, SubSeq(d, 1, idx - 1)),
                             SubSeq(d, idx + 1, Len(d)))

\* parseTopics: [panic, topics, postArrs, posts]; topics is the returned
\* slice read through its own header
parseTopics(d) ==
    LET R == ReplayLoop(Replay0, d)
    IN  [panic |-> R.panic,
         topics |-> Elems(R.tarrs, R.topics),
         postArrs |-> R.parrs,
         posts |-> R.recent]

(* ------------------------------------------------------ the log records *)

\* DeletePost's and UndeletePost's Sprintf
DelUndelStr(tag, topicId, postId) ==
    << tag >> \o Itoa(topicId) \o << "|" >> \o Itoa(postId) \o << "\n" >>

\* blockIp's and unblockIp's Sprintf
BlockStr(ipAddr, flag) ==
    << "U", ":" >> \o ipAddrToInternal(ipAddr) \o << "|", flag >>

\* addNewPost's topicStr
TopicStr(topic, newTopic) ==
    IF newTopic
    THEN << "T" >> \o Itoa(topic.Id) \o << "|" >> \o topic.Subject \o << "\n" >>
    ELSE <<>>

\* addNewPost's postStr
PostStr(topic, p) ==
    LET s2 == EncodeToString(p.MessageSha1)
    IN  << "P" >> \o Itoa(topic.Id) \o << "|" >> \o Itoa(p.Id) \o << "|" >>
        \o Itoa(p.CreatedOn) \o << "|" >> \o SubSeq(s2, 1, Len(s2) - 1) \o << "|" >>
        \o p.IpAddrInternal \o << "|" >> \o p.UserNameInternal \o << "\n" >>

(* ------------------------------------------------------------ mutations *)

Init ==
    /\ topics = <<>>
    /\ postArrs = <<>>
    /\ posts = <<>>
    /\ log = <<>>
    /\ blobs = <<>>
    /\ status = "open"
    /\ pc = "idle"
    /\ op = NoOp
    /\ ret = NoRet
    /\ nwrites = 0
    /\ parked = IdleFrame

Store == << topics, postArrs, posts, log, blobs, status >>

\* MutexFree with a Lock that never waits
MutexNeverHeld == TRUE

\* the sync.Mutex of the Store: Lock() is the first statement of every
\* public method and Unlock() is deferred to its return, so the mutex is
\* held exactly while a goroutine's call is between the two
MutexFree == parked.pc = "idle"

\* store.Lock() returns: the running goroutine is at a call and no other
\* goroutine holds the mutex
CanCall == status = "open" /\ pc = "idle" /\ MutexFree

CanMutate == CanCall /\ nwrites < MaxWrites

\* NewTopicId without the + 1
NewTopicIdSameAsLast ==
    IF Len(topics) > 0 THEN topics[Len(topics)].Id ELSE 1

\* the id CreateNewPost gives the topic
NewTopicId ==
    IF Len(topics) > 0 THEN topics[Len(topics)].Id + 1 ELSE 1

\* the id addNewPost gives the post
NewPostId(topic) == topic.Posts.len + 1

\* the Post addNewPost builds before anything is written
NewPost(msg, user, ipAddr, topic, now) ==
    [Id |-> NewPostId(topic), CreatedOn |-> now, MessageSha1 |-> Sha1OfBytes(msg),
     UserNameInternal |-> remSep(user),
     IpAddrInternal |-> remSep(ipAddrToInternal(ipAddr)), IsDeleted |-> FALSE,
     Topic |-> topic.Id]

\* a call that returns at once
Return(o, st, id) ==
    /\ op' = o
    /\ ret' = Returned(st, id)
    /\ pc' = "done"

\* entry of addNewPost, up to the blob write
addNewPost(name, msg, user, ipAddr, idx, topic, newTopic, now) ==
    /\ op' = [NoOp EXCEPT !.name = name, !.topicId = topic.Id, !.idx = idx,
                          !.topic = topic, !.newTopic = newTopic, !.msg = msg,
                          !.post = NewPost(msg, user, ipAddr, topic, now),
                          !.pre = Snapshot]
    /\ ret' = NoRet
    /\ pc' = "blob"

CreateNewPost ==
    /\ CanMutate
    /\ \E subject \in Subjects, msg \in Msgs, c \in Callers, now \in Times :
          addNewPost("CreateNewPost", msg, c.user, c.ipAddr, 0,
                     [Id |-> NewTopicId, Subject |-> remSep(subject),
                      Posts |-> EmptySlice], TRUE, now)
    /\ UNCHANGED nwrites
    /\ UNCHANGED Store
    /\ UNCHANGED parked

AddPostToTopic ==
    /\ CanMutate
    /\ \E topicId \in TopicIds, msg \in Msgs, c \in Callers, now \in Times :
          LET idx == topicByIdUnlocked(topicId)
          IN  IF idx = 0
              THEN Return([NoOp EXCEPT !.name = "AddPostToTopic", !.topicId = topicId,
                                       !.failed = "validate", !.pre = Snapshot],
                          "err", 0)
              ELSE addNewPost("AddPostToTopic", msg, c.user, c.ipAddr, idx, topics[idx],
                              FALSE, now)
    /\ UNCHANGED nwrites
    /\ UNCHANGED Store
    /\ UNCHANGED parked

\* WriteBytesToFile: the file at the digest's path holds the bytes
WriteBytesToFile(files, sha1, msg) == (sha1 :> msg) @@ files

\* AfterBlob with writeMessageAsSha1's error dropped
AfterBlobErrDropped(ok) == "append"

\* where addNewPost goes after writeMessageAsSha1: on to the records, or
\* back to the caller with the error
AfterBlob(ok) == IF ok THEN "append" ELSE "error"

\* addNewPost's call of writeMessageAsSha1, which may fail
writeMessageAsSha1 ==
    /\ pc = "blob"
    /\ status = "open"
    /\ \E ok \in BOOLEAN :
          /\ blobs' = IF ok THEN WriteBytesToFile(blobs, op.post.MessageSha1, op.msg)
                      ELSE blobs
          /\ IF AfterBlob(ok) = "append"
             THEN /\ op' = [op EXCEPT !.str = TopicStr(op.topic, op.newTopic)
                                               \o PostStr(op.topic, op.post)]
                  /\ pc' = "append"
                  /\ UNCHANGED ret
             ELSE Return([op EXCEPT !.failed = "blob"], "err", op.topic.Id)
    /\ UNCHANGED << topics, postArrs, posts, log, status, nwrites >>
    /\ UNCHANGED parked

\* DelUndelCheck without the test of the flag
DelUndelCheckNone(post, del) == "log"

\* what DeletePost (del = TRUE) and UndeletePost (del = FALSE) do with the
\* post findPost returned: "already" or "log"
DelUndelCheck(post, del) == IF post.IsDeleted = del THEN "already" ELSE "log"

DelUndel(name, tag, del) ==
    /\ CanMutate
    /\ \E topicId \in TopicIds, postId \in PostIds :
          LET f == findPost(topicId, postId)
              o == [NoOp EXCEPT !.name = name, !.topicId = topicId, !.postId = postId,
                                !.ptr = f.ptr, !.pre = Snapshot,
                                !.str = DelUndelStr(tag, topicId, postId)]
              bad == [o EXCEPT !.failed = "validate"]
          IN  IF f.res = "panic" THEN Return(bad, "panic", 0)
              ELSE IF f.res # "ok" THEN Return(bad, "err", 0)
              ELSE IF DelUndelCheck(Deref(postArrs, f.ptr), del) = "already"
              THEN Return(bad, "err", 0)
              ELSE op' = o /\ ret' = NoRet /\ pc' = "append"
    /\ UNCHANGED nwrites
    /\ UNCHANGED Store
    /\ UNCHANGED parked

DeletePost == DelUndel("DeletePost", "D", TRUE)

UndeletePost == DelUndel("UndeletePost", "U", FALSE)

Block(name, flag) ==
    /\ CanMutate
    /\ \E ipAddr \in IpAddrs :
          /\ op' = [NoOp EXCEPT !.name = name, !.key = ipAddr, !.pre = Snapshot,
                                !.str = BlockStr(ipAddr, flag)]
          /\ ret' = NoRet
          /\ pc' = "append"
    /\ UNCHANGED nwrites
    /\ UNCHANGED Store
    /\ UNCHANGED parked

BlockIp == Block("BlockIp", "1")

UnblockIp == Block("UnblockIp", "0")

IsBlockOp(name) == name \in {"BlockIp", "UnblockIp"}

\* AfterAppend with appendString's error dropped by every caller
AfterAppendErrDropped(name, ok) ==
    IF IsBlockOp(name) THEN "return" ELSE "apply"

\* where a call goes after appendString: blockIp and unblockIp drop its
\* error and have nothing to apply, the others return it
AfterAppend(name, ok) ==
    IF IsBlockOp(name) THEN "return"
    ELSE IF ok THEN "apply" ELSE "error"

\* appendString: the write either puts all of str in the file or fails
appendString ==
    /\ pc = "append"
    /\ status = "open"
    /\ \E ok \in BOOLEAN :
          /\ log' = IF ok THEN log \o op.str ELSE log
          /\ op' = [op EXCEPT !.wrote = ok, !.failed = IF ok THEN "" ELSE "append"]
          /\ CASE AfterAppend(op.name, ok) = "apply" -> pc' = "apply" /\ UNCHANGED ret
               [] AfterAppend(op.name, ok) = "error" ->
                    pc' = "done" /\ ret' = Returned("err", op.topic.Id)
               [] OTHER -> pc' = "done" /\ ret' = Returned("ok", 0)
          /\ nwrites' = IF ok THEN nwrites + 1 ELSE nwrites
    /\ UNCHANGED << topics, postArrs, posts, blobs, status >>
    /\ UNCHANGED parked

\* AddedTopics with the append made to a copy of the Topic struct
AddedTopicsToCopy(tps, idx, topic, slice, newTopic) ==
    IF newTopic THEN Append(tps, [topic EXCEPT !.Posts = slice])
    ELSE tps

\* store.topics after addNewPost's two appends
AddedTopics(tps, idx, topic, slice, newTopic) ==
    IF newTopic THEN Append(tps, [topic EXCEPT !.Posts = slice])
    ELSE [tps EXCEPT ![idx].Posts = slice]

\* the end of addNewPost: the in-memory update
addNewPostApply ==
    /\ pc = "apply"
    /\ status = "open"
    /\ op.name \in {"CreateNewPost", "AddPostToTopic"}
    /\ LET a == AppendSlice(postArrs, op.topic.Posts, op.post)
       IN  /\ postArrs' = a.heap
           /\ topics' = AddedTopics(topics, op.idx, op.topic, a.slice, op.newTopic)
           /\ posts' = Append(posts, [arr |-> a.slice.arr, idx |-> a.slice.len])
    /\ pc' = "done"
    /\ ret' = Returned("ok", op.topic.Id)
    /\ UNCHANGED << log, blobs, status, op, nwrites >>
    /\ UNCHANGED parked

\* the end of DeletePost and UndeletePost: post.IsDeleted = true / false
DelUndelApply ==
    /\ pc = "apply"
    /\ status = "open"
    /\ op.name \in {"DeletePost", "UndeletePost"}
    /\ postArrs' = [postArrs EXCEPT ![op.ptr.arr].elems[op.ptr.idx].IsDeleted =
                        (op.name = "DeletePost")]
    /\ pc' = "done"
    /\ ret' = Returned("ok", 0)
    /\ UNCHANGED << topics, posts, log, blobs, status, op, nwrites >>
    /\ UNCHANGED parked

\* NewStore on the existing data file: the process starts again, after a
\* clean stop or in the middle of a call
NewStore ==
    /\ status = "open"
    /\ pc # "done"
    /\ LET r == parseTopics(log)
       IN  /\ status' = IF r.panic = "" THEN "open" ELSE "failed"
           /\ topics' = IF r.panic = "" THEN r.topics ELSE <<>>
           /\ postArrs' = IF r.panic = "" THEN r.postArrs ELSE <<>>
           /\ posts' = IF r.panic = "" THEN r.posts ELSE <<>>
           /\ ret' = Returned(IF r.panic = "" THEN "ok" ELSE "panic", 0)
    /\ op' = [NoOp EXCEPT !.name = "NewStore", !.pre = Snapshot,
                          !.key = << pc >>]
    /\ pc' = "done"
    /\ UNCHANGED << log, blobs, nwrites >>
    /\ UNCHANGED parked

(* -------------------------------------------------------------- queries *)

Sizes == 0 .. MaxN

Offsets == -1 .. MaxN + 1

UserNamesInternal == { remSep(u) : u \in Users }

IpAddrsInternal == { ipAddrToInternal(a) : a \in IpAddrs }

RECURSIVE GetTopicsLoop(_, _, _)
\* GetTopics' loop: [panic, res, i]; res holds the indices (1-based) of the
\* store.topics elements whose addresses are returned
GetTopicsLoop(n, i, res) ==
    LET idx == Len(topics) - 1 - i
    IN  IF n <= 0 \/ idx < 0 THEN [panic |-> FALSE, res |-> res, i |-> i]
        ELSE IF idx >= Len(topics) THEN [panic |-> TRUE, res |-> res, i |-> i]
        ELSE GetTopicsLoop(n - 1, i + 1, Append(res, idx + 1))

\* NewFrom without the wrap
NewFromNoWrap(i) == i

\* the offset GetTopics returns after its loop left i
NewFrom(i) == IF Len(topics) - 1 - i <= 0 THEN 0 ELSE i

QueryOp(name, n, from, key) ==
    [NoOp EXCEPT !.name = name, !.n = n, !.from = from, !.key = key, !.pre = Snapshot]

GetTopics ==
    /\ CanCall
    /\ \E nMax \in Sizes, from \in Offsets, withDeleted \in BOOLEAN :
          LET l == GetTopicsLoop(nMax, from, <<>>)
          IN  /\ op' = QueryOp("GetTopics", nMax, from, <<>>)
              /\ ret' = IF l.panic THEN Returned("panic", 0)
                        ELSE [status |-> "ok", id |-> 0, res |-> l.res,
                              next |-> NewFrom(l.i)]
    /\ pc' = "done"
    /\ UNCHANGED << Store, nwrites >>
    /\ UNCHANGED parked

GetRecentPosts ==
    /\ CanCall
    /\ \E max \in Sizes :
          LET m == IF max > Len(posts) THEN Len(posts) ELSE max
          IN  /\ op' = QueryOp("GetRecentPosts", max, 0, <<>>)
              /\ ret' = [status |-> "ok", id |-> 0, next |-> 0,
                         res |-> [i \in 1 .. m |-> posts[Len(posts) + 1 - i]]]
    /\ pc' = "done"
    /\ UNCHANGED << Store, nwrites >>
    /\ UNCHANGED parked

\* whether the scans stop after appending to a result now holding n posts
ScanFull(n, max) == n > max

RECURSIVE ScanPosts(_, _, _, _, _)
\* the loop of GetPostsByUserInternal (byUser) and GetPostsByIpInternal,
\* from store.posts[i-1] down
ScanPosts(i, res, key, max, byUser) ==
    IF i < 1 THEN res
    ELSE LET p == Deref(postArrs, posts[i])
             hit == IF byUser THEN p.UserNameInternal = key ELSE p.IpAddrInternal = key
         IN  IF ~ hit THEN ScanPosts(i - 1, res, key, max, byUser)
             ELSE IF ScanFull(Len(res) + 1, max) THEN Append(res, posts[i])
             ELSE ScanPosts(i - 1, Append(res, posts[i]), key, max, byUser)

GetPostsByUserInternal ==
    /\ CanCall
    /\ \E userNameInternal \in UserNamesInternal, max \in Sizes :
          /\ op' = QueryOp("GetPostsByUserInternal", max, 0, userNameInternal)
          /\ ret' = [status |-> "ok", id |-> 0, next |-> 0,
                     res |-> ScanPosts(Len(posts), <<>>, userNameInternal, max, TRUE)]
    /\ pc' = "done"
    /\ UNCHANGED << Store, nwrites >>
    /\ UNCHANGED parked

GetPostsByIpInternal ==
    /\ CanCall
    /\ \E ipAddrInternal \in IpAddrsInternal, max \in Sizes :
          /\ op' = QueryOp("GetPostsByIpInternal", max, 0, ipAddrInternal)
          /\ ret' = [status |-> "ok", id |-> 0, next |-> 0,
                     res |-> ScanPosts(Len(posts), <<>>, ipAddrInternal, max, FALSE)]
    /\ pc' = "done"
    /\ UNCHANGED << Store, nwrites >>
    /\ UNCHANGED parked

\* the deferred store.Unlock(): the call has returned and its frame is gone
Unlock ==
    /\ pc = "done"
    /\ pc' = "idle"
    /\ op' = NoOp
    /\ ret' = NoRet
    /\ UNCHANGED << Store, nwrites >>
    /\ UNCHANGED parked

(* -------------------------------------------------------- specification *)

Next ==
    \/ CreateNewPost
    \/ AddPostToTopic
    \/ writeMessageAsSha1
    \/ DeletePost
    \/ UndeletePost
    \/ BlockIp
    \/ UnblockIp
    \/ appendString
    \/ addNewPostApply
    \/ DelUndelApply
    \/ NewStore
    \/ GetTopics
    \/ GetRecentPosts
    \/ GetPostsByUserInternal
    \/ GetPostsByIpInternal
    \/ Unlock

Spec == Init /\ [][Next]_vars

(* ------------------------------------------------- concurrent callers *)

\* The scheduler takes the processor from the running goroutine, wherever
\* it is, and gives it to the other one.  The callers are two goroutines
\* of the serving layer; each is in at most one call of the store.
Switch ==
    /\ status = "open"
    /\ parked' = [pc |-> pc, op |-> op, ret |-> ret]
    /\ pc' = parked.pc
    /\ op' = parked.op
    /\ ret' = parked.ret
    /\ UNCHANGED << Store, nwrites >>

NextConc ==
    \/ Switch
    \/ CreateNewPost
    \/ AddPostToTopic
    \/ writeMessageAsSha1
    \/ DeletePost
    \/ UndeletePost
    \/ BlockIp
    \/ UnblockIp
    \/ appendString
    \/ addNewPostApply
    \/ DelUndelApply
    \/ GetTopics
    \/ GetRecentPosts
    \/ GetPostsByUserInternal
    \/ GetPostsByIpInternal
    \/ Unlock

\* two goroutines calling the public methods of one store
SpecConc == Init /\ [][NextConc]_vars

(* ------------------------------------------------- the stored identity *)

\* a name as typed, and whether the user is logged in via twitter
InitUserName ==
    /\ topics = <<>> /\ postArrs = <<>> /\ posts = <<>>
    /\ log = <<>> /\ blobs = <<>> /\ status = "open"
    /\ pc = "idle" /\ op = NoOp /\ ret = NoRet
    /\ nwrites = 0
    /\ \E userName \in RawNames, twitter \in BOOLEAN :
          parked = [IdleFrame EXCEPT !.op.name = "MakeInternalUserName",
                                     !.op.key = userName, !.op.newTopic = twitter]

\* The serving layer makes the internal name and passes it as `user` to
\* CreateNewPost, whose addNewPost builds the Post; ret.res is the
\* UserNameInternal of that Post.
StoredUserName ==
    /\ pc = "idle"
    /\ \E c \in Callers, now \in Times, msg \in Msgs :
          ret' = [NoRet EXCEPT !.res =
                     NewPost(msg, MakeInternalUserName(parked.op.key, parked.op.newTopic),
                             c.ipAddr, NoTopic, now).UserNameInternal]
    /\ op' = parked.op
    /\ pc' = "done"
    /\ UNCHANGED << Store, nwrites, parked >>

NextUserName == StoredUserName

SpecUserName == InitUserName /\ [][NextUserName]_vars

(* ------------------------------------------------- an existing data file *)

\* a P record of topic t holding the post id `id`
PLine(t, id) ==
    << "P" >> \o Itoa(t) \o << "|" >> \o Itoa(id)
        \o << "|", "7", "|", B64Char(Sha1OfBytes("hi")), "|", "i", "|", "a" >>

\* the lines a data file is made of: records of two topics with post ids
\* that are and are not the position of the post, D and U records, a B
\* record, a line with an unknown tag and an empty line
LogLines ==
    { << "T", "1", "|", "s" >>, << "T", "2", "|", "s" >>,
      PLine(1, 1), PLine(1, 2), PLine(2, 1),
      << "D", "1", "|", "1" >>, << "D", "1", "|", "0" >>,
      << "U", "1", "|", "1" >>,
      << "B", "i", "|", "1" >>, << "X" >>, <<>> }

RECURSIVE LogOf(_)
\* the file holding these lines
LogOf(ls) ==
    IF ls = <<>> THEN <<>> ELSE Head(ls) \o << "\n" >> \o LogOf(Tail(ls))

\* no store yet, and a data file left by an earlier run
InitReplay ==
    /\ topics = <<>> /\ postArrs = <<>> /\ posts = <<>>
    /\ blobs = <<>> /\ status = "open"
    /\ pc = "idle" /\ op = NoOp /\ ret = NoRet
    /\ nwrites = 0
    /\ parked = IdleFrame
    /\ \E n \in 0 .. MaxLines : \E ls \in [1 .. n -> LogLines] : log = LogOf(ls)

NextReplay == NewStore

SpecReplay == InitReplay /\ [][NextReplay]_vars

(* ------------------------------------------------ the stored address *)

DottedAddrs == { Dotted(<< a, b, c, d >>) : a, b, c, d \in PartVals }

\* the address of a request
InitIpAddr ==
    /\ topics = <<>> /\ postArrs = <<>> /\ posts = <<>>
    /\ log = <<>> /\ blobs = <<>> /\ status = "open"
    /\ pc = "idle" /\ op = NoOp /\ ret = NoRet
    /\ nwrites = 0
    /\ \E ipAddr \in DottedAddrs \cup OtherAddrs :
          parked = [IdleFrame EXCEPT !.op.name = "IpAddress", !.op.key = ipAddr]

\* addNewPost stores IpAddrInternal and Post.IpAddress() gives it back:
\* ret.res is << IpAddrInternal, IpAddress() >>
IpAddress ==
    /\ pc = "idle"
    /\ \E c \in Callers, now \in Times, msg \in Msgs :
          LET p == NewPost(msg, c.user, parked.op.key, NoTopic, now)
          IN  ret' = [NoRet EXCEPT !.res = << p.IpAddrInternal,
                                      ipAddrInternalToOriginal(p.IpAddrInternal) >>]
    /\ op' = parked.op
    /\ pc' = "done"
    /\ UNCHANGED << Store, nwrites, parked >>

\* the same for a Post whose IpAddrInternal an earlier version wrote
\* without the leading 0
IpAddressLegacy ==
    /\ pc = "idle"
    /\ LET s == ipAddrToInternal(parked.op.key)
       IN  /\ Len(s) = 8 /\ s[1] = "0"
           /\ Len(Split(parked.op.key, ".")) = 4
           /\ ret' = [NoRet EXCEPT !.res = << Tail(s), ipAddrInternalToOriginal(Tail(s)) >>]
    /\ op' = [parked.op EXCEPT !.name = "IpAddressLegacy"]
    /\ pc' = "done"
    /\ UNCHANGED << Store, nwrites, parked >>

NextIpAddr ==
    \/ IpAddress
    \/ IpAddressLegacy

SpecIpAddr == InitIpAddr /\ [][NextIpAddr]_vars

(* ---------------------------------------------------- what callers see *)

\* the topics with their posts, read through each topic's own post slice
TopicView(tps, heap) ==
    [i \in 1 .. Len(tps) |->
        [Id |-> tps[i].Id, Subject |-> tps[i].Subject, Posts |-> Elems(heap, tps[i].Posts)]]

\* the posts the global post sequence points at
GlobalView(heap, ps) == [i \in 1 .. Len(ps) |-> Deref(heap, ps[i])]

MemView(m) == [topics |-> TopicView(m.topics, m.postArrs),
               posts |-> GlobalView(m.postArrs, m.posts)]

MemNow == MemView(Snapshot)

MemPre == MemView(op.pre)

\* the in-memory state is what it was when the call began
MemUntouched ==
    << topics, postArrs, posts >> = << op.pre.topics, op.pre.postArrs, op.pre.posts >>

\* what the call in progress has put in the data file
Written == SubSeq(log, Len(op.pre.log) + 1, Len(log))

Mutations == {"CreateNewPost", "AddPostToTopic", "DeletePost", "UndeletePost",
              "BlockIp", "UnblockIp"}

Done(name) == pc = "done" /\ op.name = name

(* --------------------------------------------------------------- claims *)

\* C1: reopening the store after any sequence of mutation calls succeeds and
\* gives the same topics, posts, flags and global post sequence as the
\* in-memory state had before closing.
C1_RoundTrip ==
    (Done("NewStore") /\ op.key = << "idle" >>)
        => (ret.status = "ok" /\ MemNow = MemPre)

\* C2: a mutation validates, writes the blob (post creation only), appends
\* to the log and then updates memory, and a failed step stops it: before
\* the blob is written nothing has changed; before the append the log and
\* the memory are unchanged; the memory changes only after the append has
\* written the record; a call that failed in validation or at the blob
\* write left log and memory unchanged, one that failed at the append left
\* the memory unchanged.
C2_FailedStepStops ==
    /\ pc = "blob" => (MemUntouched /\ log = op.pre.log /\ blobs = op.pre.blobs)
    /\ pc = "append" =>
          /\ MemUntouched /\ log = op.pre.log
          /\ op.name \in {"CreateNewPost", "AddPostToTopic"} =>
                (op.post.MessageSha1 \in DOMAIN blobs
                    /\ blobs[op.post.MessageSha1] = op.msg)
    /\ pc = "apply" => (MemUntouched /\ log = op.pre.log \o op.str /\ op.str # <<>>)
    /\ (pc = "done" /\ op.name \in Mutations) =>
          /\ op.failed \in {"validate", "blob"} =>
                (ret.status # "ok" /\ MemUntouched /\ log = op.pre.log
                    /\ blobs = op.pre.blobs)
          /\ op.failed = "append" => (MemUntouched /\ log = op.pre.log)
          /\ (op.failed = "append" /\ ~ IsBlockOp(op.name)) => ret.status = "err"
          /\ (op.failed = "" /\ ~ IsBlockOp(op.name)) =>
                (ret.status = "ok" /\ log = op.pre.log \o op.str /\ ~ MemUntouched)

\* C2's case: a CreateNewPost whose append failed after its blob was written
C2_Witness ==
    /\ Done("CreateNewPost") /\ op.failed = "append"
    /\ op.post.MessageSha1 \in DOMAIN blobs
    /\ Len(op.pre.topics) = 1

\* replaying d succeeds and gives the topics and posts the memory holds
ReplayGives(d) ==
    LET r == parseTopics(d)
    IN  r.panic = "" /\ TopicView(r.topics, r.postArrs) = TopicView(topics, postArrs)

\* C3: the memory is never ahead of the log, so at any point a replay of
\* the log succeeds and gives everything the memory holds: the memory is the
\* replay of the log, or of the log as it was before the append of the call
\* in progress.
C3_NeverAheadOfLog ==
    status = "open" =>
        /\ parseTopics(log).panic = ""
        /\ ReplayGives(log) \/ (pc = "apply" /\ ReplayGives(op.pre.log))

\* C4: topic ids are 1..N in creation order, CreateNewPost returns the id
\* it assigned (last topic id + 1, or 1), and in every topic the post at
\* position i (0-based) has id i + 1.
C4_MonotonicIds ==
    /\ \A i \in 1 .. Len(topics) :
          /\ topics[i].Id = i
          /\ \A j \in 1 .. topics[i].Posts.len :
                Elems(postArrs, topics[i].Posts)[j].Id = j
    /\ (Done("CreateNewPost") /\ ret.status = "ok") =>
          /\ ret.id = Len(topics)
          /\ ret.id = IF Len(op.pre.topics) = 0 THEN 1
                      ELSE op.pre.topics[Len(op.pre.topics)].Id + 1
          /\ Len(topics) = Len(op.pre.topics) + 1

\* C4's case: a second topic was created after a topic with two posts
C4_Witness ==
    /\ Done("CreateNewPost") /\ ret.status = "ok"
    /\ Len(topics) = 2
    /\ topics[1].Posts.len = 2

PreTopics == TopicView(op.pre.topics, op.pre.postArrs)

\* position of the topic with this id when the call began, 0 for none
PreIdx(topicId) ==
    IF \E i \in 1 .. Len(PreTopics) : PreTopics[i].Id = topicId
    THEN CHOOSE i \in 1 .. Len(PreTopics) : PreTopics[i].Id = topicId
    ELSE 0

\* (op.topicId, op.postId) named a post when the call began
TargetExists ==
    /\ PreIdx(op.topicId) # 0
    /\ op.postId \in 1 .. Len(PreTopics[PreIdx(op.topicId)].Posts)

DelUndelDone == pc = "done" /\ op.name \in {"DeletePost", "UndeletePost"}

\* w is one line, tag and the two ids, and nothing else
OneDelUndelRecord(w, tag, topicId, postId) ==
    /\ Len(w) >= 2
    /\ w[1] = tag
    /\ IndexByte(w, "\n") = Len(w)
    /\ parseDelUndel(SubSeq(w, 2, Len(w) - 1))
          = [ok |-> TRUE, topicId |-> topicId, postId |-> postId]

\* C5: DeletePost on a deleted post and UndeletePost on an active post
\* return an error, append nothing and change no flag; DeletePost on an
\* active post and UndeletePost on a deleted post append exactly one D or U
\* record and flip that post's flag only.
C5_DelUndelToggle ==
    (DelUndelDone /\ TargetExists) =>
        LET i == PreIdx(op.topicId)
            want == (op.name = "DeletePost")
            was == PreTopics[i].Posts[op.postId].IsDeleted
        IN  /\ was = want =>
                  /\ ret.status = "err"
                  /\ log = op.pre.log
                  /\ MemNow = MemPre
            /\ (was # want /\ op.failed # "append") =>
                  /\ ret.status = "ok"
                  /\ OneDelUndelRecord(Written, IF want THEN "D" ELSE "U",
                                       op.topicId, op.postId)
                  /\ TopicView(topics, postArrs)
                        = [PreTopics EXCEPT ![i].Posts[op.postId].IsDeleted = want]

\* C5's case: a DeletePost of a post that an earlier DeletePost deleted
C5_Witness ==
    /\ Done("DeletePost") /\ TargetExists
    /\ PreTopics[PreIdx(op.topicId)].Posts[op.postId].IsDeleted
    /\ ret.status = "err"
    /\ \E k \in 1 .. Len(log) : log[k] = "D"

\* C6: DeletePost and UndeletePost of a (topicId, postId) that names no
\* post, post ids 0 and below included, return an error, append nothing and
\* leave the memory unchanged.
C6_UnknownPostIsError ==
    (DelUndelDone /\ ~ TargetExists) =>
        (ret.status = "err" /\ log = op.pre.log /\ MemUntouched)

\* C7: AddPostToTopic with an unknown topic id returns an error and writes
\* no blob, no record and nothing in memory; with a known id it appends one
\* post, with id = previous post count + 1, to that topic and changes no
\* other topic nor the number of topics.
C7_AddPostToTopic ==
    Done("AddPostToTopic") =>
        LET i == PreIdx(op.topicId)
            V == PreTopics
            W == TopicView(topics, postArrs)
        IN  /\ i = 0 =>
                  /\ ret.status = "err"
                  /\ blobs = op.pre.blobs /\ log = op.pre.log /\ MemUntouched
            /\ (i # 0 /\ op.failed = "") =>
                  /\ ret.status = "ok"
                  /\ Len(W) = Len(V)
                  /\ \A j \in 1 .. Len(V) : j # i => W[j] = V[j]
                  /\ W[i].Id = V[i].Id /\ W[i].Subject = V[i].Subject
                  /\ Len(W[i].Posts) = Len(V[i].Posts) + 1
                  /\ SubSeq(W[i].Posts, 1, Len(V[i].Posts)) = V[i].Posts
                  /\ W[i].Posts[Len(W[i].Posts)].Id = Len(V[i].Posts) + 1

\* C7's case: a post added to the older of two topics
C7_Witness ==
    /\ Done("AddPostToTopic") /\ ret.status = "ok"
    /\ Len(topics) = 2 /\ op.topicId = 1
    /\ topics[1].Posts.len = 2

\* C8: BlockIp and UnblockIp append exactly one record of the grammar, a
\* newline-terminated line with tag B and the fields ipEncoded and flag,
\* and leave topics and posts unchanged.
C8_BlockRecord ==
    (pc = "done" /\ IsBlockOp(op.name) /\ op.wrote) =>
        /\ Len(Written) >= 2
        /\ Written[1] = "B"
        /\ IndexByte(Written, "\n") = Len(Written)
        /\ Split(SubSeq(Written, 2, Len(Written) - 1), "|")
              = << ipAddrToInternal(op.key),
                   << IF op.name = "BlockIp" THEN "1" ELSE "0" >> >>
        /\ MemUntouched

\* the pointers of the global post sequence, newest first, to the posts
\* whose identity (byUser) or address equals key
NewestMatching(key, byUser) ==
    LET rev == [i \in 1 .. Len(posts) |-> posts[Len(posts) + 1 - i]]
        Hit(ptr) == IF byUser THEN Deref(postArrs, ptr).UserNameInternal = key
                    ELSE Deref(postArrs, ptr).IpAddrInternal = key
    IN  SelectSeq(rev, Hit)

Min(a, b) == IF a < b THEN a ELSE b

Max(a, b) == IF a > b THEN a ELSE b

\* C9: GetPostsByUserInternal and GetPostsByIpInternal return at most n
\* posts, the newest exact matches of the global post sequence, newest first.
C9_AtMostN ==
    (pc = "done" /\ op.name \in {"GetPostsByUserInternal", "GetPostsByIpInternal"}) =>
        LET all == NewestMatching(op.key, op.name = "GetPostsByUserInternal")
        IN  /\ Len(ret.res) <= op.n
            /\ ret.res = SubSeq(all, 1, Min(op.n, Len(all)))

\* C10: GetTopics returns the topics newest first from offset topics back,
\* at most pageSize of them, and the next offset is 0 whenever
\* offset + pageSize >= number of topics.
C10_GetTopics ==
    (Done("GetTopics") /\ op.from >= 0) =>
        LET N == Len(topics)
            m == Min(op.n, Max(N - op.from, 0))
        IN  /\ ret.status = "ok"
            /\ ret.res = [k \in 1 .. m |-> N - op.from - k + 1]
            /\ op.from + op.n >= N => ret.next = 0

\* C10's case: a page that starts one back and reaches the oldest of two or
\* more topics
C10_Witness ==
    /\ Done("GetTopics") /\ ret.status = "ok"
    /\ Len(topics) >= 2 /\ op.from = 1 /\ op.n >= 1
    /\ op.from + op.n >= Len(topics)
    /\ Len(ret.res) >= 1 /\ ret.res[Len(ret.res)] = 1

\* the store as the call of frame f found it when it took the lock
FramePre(f) == << f.op.pre.topics, f.op.pre.postArrs, f.op.pre.posts >>

\* the call of frame f ran alone from its Lock on: whatever changed in the
\* store since is its own doing
RanAlone(f) ==
    /\ f.pc \in {"blob", "append"} =>
          (<< topics, postArrs, posts >> = FramePre(f) /\ log = f.op.pre.log)
    /\ f.pc = "apply" =>
          (<< topics, postArrs, posts >> = FramePre(f)
              /\ log = f.op.pre.log \o f.op.str)
    /\ (f.pc = "done" /\ f.op.name \in Mutations /\ f.op.wrote) =>
          log = f.op.pre.log \o f.op.str
    /\ (f.pc = "done" /\ f.op.name \notin Mutations) =>
          (<< topics, postArrs, posts >> = FramePre(f) /\ log = f.op.pre.log)

\* a CreateNewPost that returned in frame f got an id no other topic has,
\* and its T record and its P record are the end of the log, adjacent
OwnTopic(f) ==
    (f.pc = "done" /\ f.op.name = "CreateNewPost" /\ f.ret.status = "ok") =>
        /\ Cardinality({ i \in 1 .. Len(topics) : topics[i].Id = f.ret.id }) = 1
        /\ log = f.op.pre.log \o TopicStr(f.op.topic, TRUE)
                               \o PostStr(f.op.topic, f.op.post)

\* C11: under any interleaving of two goroutines every public method runs
\* from Lock to Unlock with no step of another call in between, so two
\* concurrent CreateNewPost calls never get the same topic id and the T
\* record of a call is followed at once by the P record of the same call.
C11_Serialized ==
    /\ pc = "idle" \/ parked.pc = "idle"
    /\ RanAlone([pc |-> pc, op |-> op, ret |-> ret]) /\ RanAlone(parked)
    /\ OwnTopic([pc |-> pc, op |-> op, ret |-> ret]) /\ OwnTopic(parked)

\* C11's case: a goroutine was descheduled inside its CreateNewPost, the
\* blob written and the records not yet, while the other goroutine runs
\* after a topic was created
C11_Witness ==
    /\ pc = "idle"
    /\ parked.pc = "append" /\ parked.op.name = "CreateNewPost"
    /\ Len(topics) = 1

\* s looks like a name tagged by a login method: its second character is
\* the separator
Tagged(s) == Len(s) >= 2 /\ s[2] = ":"

\* C12: the identity stored for a name typed by a user who is not logged in
\* is never a tagged-looking name, and the identity stored for a logged-in
\* user is "t:" and the user name.
C12_NoForgedTag ==
    (pc = "done" /\ op.name = "MakeInternalUserName") =>
        /\ ~ op.newTopic => ~ Tagged(ret.res)
        /\ op.newTopic => ret.res = << "t", ":" >> \o remSep(op.key)

\* C13: a dotted address of four parts 0..255 is stored as 8 hex digits
\* and read back unchanged, also from the 7-digit form without the leading
\* 0; an address that is not four dot-separated parts is stored as it is
\* and read back as it is.
C13_IpRoundTrip ==
    /\ Done("IpAddress") =>
          /\ op.key \in DottedAddrs =>
                /\ Len(ret.res[1]) = 8
                /\ HexDecodeString(ret.res[1]).ok
                /\ ret.res[2] = op.key
          /\ Len(Split(op.key, ".")) # 4 =>
                (ret.res[1] = op.key /\ ret.res[2] = op.key)
    /\ Done("IpAddressLegacy") =>
          (Len(ret.res[1]) = 7 /\ ret.res[2] = op.key)

(* What a data file says, record by record, with no pointers: ids, the
   topic ids in the order of their T records; subject and posts, by topic
   id; ok, FALSE from the first record that cannot be applied; exact,
   whether every P record held the position of its post. *)
Said0 == [ok |-> TRUE, exact |-> TRUE, ids |-> <<>>, subject |-> <<>>, posts |-> <<>>]

NotSaid(S) == [S EXCEPT !.ok = FALSE]

SaidT(S, t) ==
    IF ~ t.ok \/ t.topic.Id \in DOMAIN S.posts THEN NotSaid(S)
    ELSE [S EXCEPT !.ids = Append(@, t.topic.Id),
                   !.subject = (t.topic.Id :> t.topic.Subject) @@ @,
                   !.posts = (t.topic.Id :> <<>>) @@ @]

SaidPFields(S, topicId, id, createdOnSeconds, msgSha1, ipAddrInternal, userName) ==
    IF ~ topicId.ok \/ ~ id.ok \/ ~ createdOnSeconds.ok \/ ~ msgSha1.ok
    THEN NotSaid(S)
    ELSE IF topicId.val \notin DOMAIN S.posts THEN NotSaid(S)
    ELSE [S EXCEPT !.exact = @ /\ id.val = Len(S.posts[topicId.val]) + 1,
                   !.posts[topicId.val] =
                       Append(@, [Id |-> Len(@) + 1,
                                  CreatedOn |-> createdOnSeconds.val,
                                  MessageSha1 |-> msgSha1.val,
                                  UserNameInternal |-> userName,
                                  IpAddrInternal |-> ipAddrInternal,
                                  IsDeleted |-> FALSE,
                                  Topic |-> topicId.val])]

SaidP(S, parts) ==
    IF Len(parts) # 6 THEN NotSaid(S)
    ELSE SaidPFields(S, Atoi(parts[1]), Atoi(parts[2]), Atoi(parts[3]),
                     DecodeString(parts[4] \o << "=" >>), parts[5], parts[6])

\* a D (del) or U record names a post of a declared topic that is not yet
\* in the state the record asks for
GoodDU(S, a, del) ==
    /\ a.ok
    /\ a.topicId \in DOMAIN S.posts
    /\ a.postId \in 1 .. Len(S.posts[a.topicId])
    /\ S.posts[a.topicId][a.postId].IsDeleted # del

SaidDU(S, a, del) ==
    IF ~ GoodDU(S, a, del) THEN NotSaid(S)
    ELSE [S EXCEPT !.posts[a.topicId][a.postId].IsDeleted = del]

Tag(line) == IF Len(line) = 0 THEN "" ELSE line[1]

SaidLine(S, line) ==
    CASE Tag(line) = "T" -> SaidT(S, parseTopic(line))
      [] Tag(line) = "P" -> SaidP(S, Split(Tail(line), "|"))
      [] Tag(line) = "D" -> SaidDU(S, parseDelUndel(Tail(line)), TRUE)
      [] Tag(line) = "U" -> SaidDU(S, parseDelUndel(Tail(line)), FALSE)
      [] Tag(line) = "B" -> S
      [] OTHER -> NotSaid(S)

\* what a line says after what the lines before it said
SaidNext(S, line) == IF S.ok THEN SaidLine(S, line) ELSE S

RECURSIVE SaidStates(_, _)
\* what the file says after 0, 1, 2, ... of these lines, after acc
SaidStates(acc, ls) ==
    IF ls = <<>> THEN acc
    ELSE SaidStates(Append(acc, SaidNext(acc[Len(acc)], Head(ls))), Tail(ls))

RECURSIVE ReplayStates(_, _)
\* the state of parseTopics' loop after 0, 1, 2, ... of these lines, after
\* acc
ReplayStates(acc, ls) ==
    IF ls = <<>> THEN acc
    ELSE ReplayStates(Append(acc, ReplayLoop(acc[Len(acc)], Head(ls) \o << "\n" >>)),
                      Tail(ls))

RECURSIVE LinesOf(_)
\* the lines of a file whose every line ends in a newline
LinesOf(d) ==
    IF IndexByte(d, "\n") = 0 THEN <<>>
    ELSE << SubSeq(d, 1, IndexByte(d, "\n") - 1) >>
             \o LinesOf(SubSeq(d, IndexByte(d, "\n") + 1, Len(d)))

\* the lines of the file NewStore read
FileLines == LinesOf(op.pre.log)

\* element k + 1 is what the first k lines of the file say
SaidTrace == SaidStates(<< Said0 >>, FileLines)

\* element k + 1 is the state of parseTopics' loop after k lines of the file
ReplayTrace == ReplayStates(<< Replay0 >>, FileLines)

\* the topic with this id in what NewStore returned, <<>> for none
ReturnedTopic(id) ==
    LET V == TopicView(topics, postArrs)
    IN  IF \E i \in 1 .. Len(V) : V[i].Id = id
        THEN << V[CHOOSE i \in 1 .. Len(V) : V[i].Id = id] >>
        ELSE <<>>

\* C14: replaying a well-formed log gives, for every topic id of a T
\* record, a topic whose posts are the P records of that id in log order,
\* however the records of the topics are interleaved, with the flags the D
\* and U records leave.
C14_ReplayAttachesPosts ==
    Done("NewStore") =>
        LET S == SaidTrace[Len(SaidTrace)]
        IN  (S.ok /\ S.exact) =>
                /\ ret.status = "ok"
                /\ \A id \in DOMAIN S.posts :
                      ReturnedTopic(id)
                         = << [Id |-> id, Subject |-> S.subject[id],
                               Posts |-> S.posts[id]] >>

\* line is a D or U record that the records before it, which said S, do
\* not allow: unknown topic, no such post, or post already in that state
BadDU(S, line) ==
    /\ Tag(line) \in {"D", "U"}
    /\ S.ok
    /\ ~ GoodDU(S, parseDelUndel(Tail(line)), Tag(line) = "D")

\* C15: a D or U record naming an unknown topic, a post id outside 1..post
\* count, or a post already in the state it asks for aborts the replay:
\* the record changes no flag and NewStore returns no store.
C15_BadDelUndelAborts ==
    Done("NewStore") =>
        LET ls == FileLines
            ST == SaidTrace
            RT == ReplayTrace
        IN  \A k \in 1 .. Len(ls) :
                (BadDU(ST[k], ls[k]) /\ RT[k].panic = "") =>
                    /\ RT[k + 1].panic # ""
                    /\ RT[k + 1].parrs = RT[k].parrs
                    /\ ret.status = "panic"
                    /\ status = "failed"
                    /\ topics = <<>>

\* C15's case: the file ends in a D record for a post that the D record
\* before it deleted
C15_Witness ==
    /\ Done("NewStore")
    /\ Len(FileLines) = 4
    /\ BadDU(SaidTrace[4], FileLines[4])
    /\ FileLines[3] = FileLines[4]
    /\ ReplayTrace[4].panic = ""
    /\ ret.status = "panic"

\* line is a P record of a declared topic whose post id is not the
\* position the post gets; S is what the lines before it said, T what they
\* and it say
MisnumberedP(S, T, line) ==
    /\ Tag(line) = "P"
    /\ S.exact
    /\ T.ok
    /\ ~ T.exact

\* the ids of the posts of a topic are 1, 2, ... in the order of the posts
Positional(ps) == \A j \in 1 .. Len(ps) : ps[j].Id = j

\* C16: a P record whose post id is not the topic's post count + 1 does
\* not abort the replay and its post gets the id post count + 1, so after
\* the replay the id of every post is its position in its topic.
C16_PositionalIds ==
    Done("NewStore") =>
        LET ls == FileLines
            ST == SaidTrace
            RT == ReplayTrace
        IN  /\ \A k \in 1 .. Len(ls) :
                  (MisnumberedP(ST[k], ST[k + 1], ls[k]) /\ RT[k].panic = "") =>
                      /\ RT[k + 1].panic = ""
                      /\ Len(RT[k + 1].recent) = Len(RT[k].recent) + 1
                      /\ Deref(RT[k + 1].parrs, RT[k + 1].recent[Len(RT[k + 1].recent)]).Id
                            = RT[k + 1].recent[Len(RT[k + 1].recent)].idx
            /\ \A i \in 1 .. Len(topics) :
                  Positional(TopicView(topics, postArrs)[i].Posts)
            /\ \A i \in 1 .. Len(posts) : Deref(postArrs, posts[i]).Id = posts[i].idx

\* C16's case: the store was returned for a file whose only P record holds
\* post id 2
C16_Witness ==
    /\ Done("NewStore") /\ ret.status = "ok"
    /\ \E k \in 1 .. Len(FileLines) :
          MisnumberedP(SaidTrace[k], SaidTrace[k + 1], FileLines[k])
    /\ Len(posts) = 1
    /\ Deref(postArrs, posts[1]).Id = 1

\* C17: a line with tag B leaves the topics, posts and flags built so far
\* as they are and the replay goes on; a line with a tag other than T, P,
\* D, U and B aborts the replay.
C17_BlockLineIsNoOp ==
    Done("NewStore") =>
        LET ls == FileLines
            RT == ReplayTrace
        IN  \A k \in 1 .. Len(ls) :
                RT[k].panic = "" =>
                    /\ Tag(ls[k]) = "B" => RT[k + 1] = RT[k]
                    /\ Tag(ls[k]) \notin {"T", "P", "D", "U", "B"} =>
                          (RT[k + 1].panic # "" /\ ret.status = "panic"
                              /\ status = "failed")

\* C17's case: the store was returned for a file with a B line after the
\* records of a topic and its post
C17_Witness ==
    /\ Done("NewStore") /\ ret.status = "ok"
    /\ Len(FileLines) >= 3 /\ Tag(FileLines[3]) = "B"
    /\ Len(topics) = 1 /\ Len(posts) = 1

RECURSIVE CountPosts(_)
\* the number of posts of the first i topics
CountPosts(i) == IF i = 0 THEN 0 ELSE CountPosts(i - 1) + topics[i].Posts.len

\* the post this entry of the global post sequence points at is, flag
\* included, the post with its topic id and post id in the topic's own posts
Live(ptr) ==
    \E i \in 1 .. Len(topics) :
        /\ topics[i].Id = Deref(postArrs, ptr).Topic
        /\ Deref(postArrs, ptr).Id \in 1 .. topics[i].Posts.len
        /\ Elems(postArrs, topics[i].Posts)[Deref(postArrs, ptr).Id] = Deref(postArrs, ptr)

PostQueries == {"GetRecentPosts", "GetPostsByUserInternal", "GetPostsByIpInternal"}

\* C18: the global post sequence has one entry per post of every topic,
\* the posts of a topic in the order of their ids, and every entry, also
\* when a query returns it, shows the post as the topic holds it, deletion
\* flag included, whatever was appended since.
C18_GlobalPostsAreLive ==
    /\ Len(posts) = CountPosts(Len(topics))
    /\ \A k \in 1 .. Len(posts) : Live(posts[k])
    /\ \A k, l \in 1 .. Len(posts) :
          (k < l /\ Deref(postArrs, posts[k]).Topic = Deref(postArrs, posts[l]).Topic)
              => Deref(postArrs, posts[k]).Id < Deref(postArrs, posts[l]).Id
    /\ (pc = "done" /\ op.name \in PostQueries) =>
          \A j \in 1 .. Len(ret.res) : Live(ret.res[j])

RECURSIVE PagedFrom(_, _, _)
\* the topics (indices in store.topics) of the pages of size n from offset
\* `from` on, each page at the offset the page before it returned, up to
\* the page that returns offset 0; at most `calls` + 1 pages
PagedFrom(n, from, calls) ==
    LET l == GetTopicsLoop(n, from, <<>>)
    IN  IF NewFrom(l.i) = 0 \/ calls = 0 THEN l.res
        ELSE l.res \o PagedFrom(n, NewFrom(l.i), calls - 1)

\* C19: with one topic or more and a page size of 1 or more, the pages
\* got by starting at offset 0 and passing each returned offset to the next
\* call hold, up to the page that returns offset 0, every topic once,
\* newest first and the oldest included.
C19_PagingReachesOldest ==
    (Done("GetTopics") /\ op.from = 0 /\ op.n >= 1 /\ Len(topics) >= 1) =>
        /\ ret.status = "ok"
        /\ ret.res \o (IF ret.next = 0 THEN <<>>
                        ELSE PagedFrom(op.n, ret.next, Len(topics)))
              = [k \in 1 .. Len(topics) |-> Len(topics) + 1 - k]

\* the digest field of a P record, as parsePost decodes it
DigestOf(line) ==
    IF Len(Split(Tail(line), "|")) # 6 THEN [ok |-> FALSE, val |-> NoSha1]
    ELSE DecodeString(Split(Tail(line), "|")[4] \o << "=" >>)

\* the blob store holds, under this digest, a body with this digest
Stored(sha1) == sha1 \in DOMAIN blobs /\ Sha1OfBytes(blobs[sha1]) = sha1

PostCreations == {"CreateNewPost", "AddPostToTopic"}

\* C20: the body of every P record of the log is in the blob store under
\* the digest of the record, since a post creation appends its record
\* only after its blob write succeeded; and a write of a body whose digest
\* is already stored leaves that body and no second entry.
C20_BlobBeforeRecord ==
    /\ LET ls == LinesOf(log)
       IN  \A k \in 1 .. Len(ls) :
               Tag(ls[k]) = "P" =>
                   (DigestOf(ls[k]).ok /\ Stored(DigestOf(ls[k]).val))
    /\ (pc \in {"append", "apply", "done"} /\ op.name \in PostCreations
            /\ op.failed \notin {"validate", "blob"}) =>
          /\ Stored(op.post.MessageSha1)
          /\ blobs[op.post.MessageSha1] = op.msg
          /\ DOMAIN blobs = DOMAIN op.pre.blobs \cup { op.post.MessageSha1 }
    /\ (pc = "done" /\ op.name \in PostCreations /\ op.failed = "blob") =>
          (log = op.pre.log /\ ret.status = "err")

\* C20's case: the blob write of a post creation succeeded for a body that
\* an earlier post, whose P record is in the log, had stored
C20_Witness ==
    /\ pc = "append" /\ op.name \in PostCreations
    /\ op.post.MessageSha1 \in DOMAIN op.pre.blobs
    /\ \E k \in 1 .. Len(LinesOf(log)) : Tag(LinesOf(log)[k]) = "P"

====
